---------------------------- MODULE Spec2Model ----------------------------
(***************************************************************************)
(* Model of the islands web worker                                         *)
(* (frontend/src/core/islands/worker/worker.tsx).                          *)
(*                                                                         *)
(* The worker is single-threaded JavaScript: the module body runs to       *)
(* completion, then every request handler runs in steps that are separated *)
(* by its awaits.  Each action below is one such step.                     *)
(***************************************************************************)
EXTENDS Integers, Sequences, FiniteSets, TLC

(***************************************************************************)
(* Bounds of the model.                                                    *)
(***************************************************************************)
MaxReqs == 3
MaxPush == 2
MaxConsumerReady == 1
MaxCodeLen == 3
MaxResponseLen == 3

VARIABLES
    workerLoaded,         \* the module body (lines 46-174) has run
    controller,           \* self.controller: "unset" | "created"
    pyodide,              \* self.pyodide: "unset" | "loaded"
    pyodideReadyPromise,  \* "pending" | "fulfilled"
    bootstrapFailed,      \* the catch of loadPyodideAndPackages has run
    messageBuffer,        \* [started, buffer]
    bridgeReady,          \* Deferred: [status, value]
    sent,                 \* messages sent to the main thread, in order
    pushed,               \* messages the sessions handed to onMessage, in order
    flushed,              \* how many held messages start() has handed over
    nBridges,             \* bridge objects created by controller.startSession
    resolvedWith,         \* the arguments of bridgeReady.resolve, in call order
    consumerReadyReceived,\* consumerReady notifications received
    consumerWaiting,      \* consumerReady listeners suspended at their await
    reqs                  \* the requests: id -> record

(* The grid layout editor (GridLayoutRenderer, grid-layout.tsx).  The       *)
(* worker and the editor share no state.                                   *)
VARIABLES
    layout,               \* the layout document (props.layout)
    droppingItem,         \* useState, line 63: NoItem or [i, w, h]
    isLocked,             \* useState, line 68
    mode,                 \* props.mode: "edit" | "read"
    mounted,              \* the component is mounted
    appClassList,         \* the classes of the element with id "App"
    dragging,             \* a drag of a tray cell is under way
    lastOp,               \* the last handler that ran
    history               \* the first handler runs, each with the document before

workerVars == <<workerLoaded, controller, pyodide, pyodideReadyPromise,
                bootstrapFailed, messageBuffer, bridgeReady, sent, pushed,
                flushed, nBridges, resolvedWith, consumerReadyReceived,
                consumerWaiting, reqs>>

gridVars == <<layout, droppingItem, isLocked, mode, mounted, appClassList,
              dragging, lastOp, history>>

vars == <<workerVars, gridVars>>

ReqIds == 1..MaxReqs

(***************************************************************************)
(* Messages of the worker-to-main contract (lines 146-155).  A             *)
(* kernelMessage carries the message; the others carry 0.                  *)
(***************************************************************************)
Msg(type, message) == [type |-> type, message |-> message]

RpcSend(log, type, message) == Append(log, Msg(type, message))

(***************************************************************************)
(* JavaScript values, as far as the worker looks at them.  Every value is  *)
(* a record of one shape: t is the type tag, n a number's value, s a       *)
(* string's characters, v an array's elements.                             *)
(***************************************************************************)
Undefined == [t |-> "undefined", n |-> 0, s |-> <<>>, v |-> <<>>]
Num(k) == [t |-> "number", n |-> k, s |-> <<>>, v |-> <<>>]
Str(chars) == [t |-> "string", n |-> 0, s |-> chars, v |-> <<>>]
Arr(elems) == [t |-> "array", n |-> 0, s |-> <<>>, v |-> elems]

DigitChars == <<"0", "1", "2", "3", "4", "5", "6", "7", "8", "9">>

RECURSIVE Digits(_)
Digits(k) ==
    IF k < 10 THEN <<DigitChars[k + 1]>>
    ELSE Digits(k \div 10) \o <<DigitChars[(k % 10) + 1]>>

(***************************************************************************)
(* JSON.stringify, on numbers and arrays (line 128).                       *)
(***************************************************************************)
RECURSIVE StringifyChars(_), StringifyElems(_, _)
StringifyChars(val) ==
    IF val.t = "number" THEN Digits(val.n)
    ELSE IF val.t = "array" THEN <<"[">> \o StringifyElems(val.v, 1) \o <<"]">>
    ELSE <<"n", "u", "l", "l">>

StringifyElems(elems, i) ==
    IF i > Len(elems) THEN <<>>
    ELSE (IF i > 1 THEN <<",">> ELSE <<>>)
         \o StringifyChars(elems[i]) \o StringifyElems(elems, i + 1)

JsonStringify(val) == Str(StringifyChars(val))

(***************************************************************************)
(* JSON.parse (line 139), on the JSON texts over the characters            *)
(* [ ] , 1: numbers written with the digit 1 and arrays of values.  The    *)
(* result is [ok, val]; ok = FALSE is the SyntaxError JSON.parse throws.   *)
(***************************************************************************)
ParseFail == [ok |-> FALSE, val |-> Undefined, next |-> 0]

RECURSIVE ParseNumber(_, _, _)
ParseNumber(chars, i, acc) ==
    IF i <= Len(chars) /\ chars[i] = "1"
    THEN ParseNumber(chars, i + 1, acc * 10 + 1)
    ELSE [ok |-> TRUE, val |-> Num(acc), next |-> i]

RECURSIVE ParseValue(_, _), ParseElems(_, _, _)
ParseValue(chars, i) ==
    IF i > Len(chars) THEN ParseFail
    ELSE IF chars[i] = "1" THEN ParseNumber(chars, i, 0)
    ELSE IF chars[i] = "["
         THEN IF i + 1 <= Len(chars) /\ chars[i + 1] = "]"
              THEN [ok |-> TRUE, val |-> Arr(<<>>), next |-> i + 2]
              ELSE ParseElems(chars, i + 1, <<>>)
    ELSE ParseFail

ParseElems(chars, i, acc) ==
    LET r == ParseValue(chars, i) IN
    IF ~r.ok \/ r.next > Len(chars) THEN ParseFail
    ELSE IF chars[r.next] = ","
         THEN ParseElems(chars, r.next + 1, Append(acc, r.val))
    ELSE IF chars[r.next] = "]"
         THEN [ok |-> TRUE, val |-> Arr(Append(acc, r.val)), next |-> r.next + 1]
    ELSE ParseFail

JsonParse(chars) ==
    LET r == ParseValue(chars, 1) IN
    IF r.ok /\ r.next = Len(chars) + 1
    THEN [ok |-> TRUE, val |-> r.val]
    ELSE [ok |-> FALSE, val |-> Undefined]

(***************************************************************************)
(* Source text, as a sequence of pieces.  A piece is one occurrence of a   *)
(* marker the worker searches for, or other text; includes(marker) is the  *)
(* search for a piece.  The prepended lines end in a line break, so no     *)
(* marker can straddle the seam between a prepended line and the code.     *)
(***************************************************************************)
Pieces == {"mo.sql", "polars", "x = 1\n"}

Includes(code, marker) == \E i \in DOMAIN code : code[i] = marker

Prepend(line, code) == <<line>> \o code

(***************************************************************************)
(* loadPackages, lines 88-100: the text handed to loadPackagesFromImports. *)
(***************************************************************************)
WithSqlImports(code) ==
    Prepend("import sqlglot\n",
        Prepend("import duckdb\n",
            Prepend("import pandas\n", code)))

InstallTextAppending(code) ==
    IF Includes(code, "mo.sql")
    THEN LET sql == <<"import pandas\n", "import duckdb\n", "import sqlglot\n">>
                        \o code IN
         IF Includes(sql, "polars")
         THEN Prepend("import pyarrow\n", sql)
         ELSE sql
    ELSE code

InstallTextPyarrowAlone(code) ==
    LET sql == IF Includes(code, "mo.sql") THEN WithSqlImports(code) ELSE code IN
    IF Includes(sql, "polars")
    THEN Prepend("import pyarrow\n", sql)
    ELSE sql

InstallText(code) ==
    IF Includes(code, "mo.sql")
    THEN LET sql == WithSqlImports(code) IN
         IF Includes(sql, "polars")
         THEN Prepend("import pyarrow\n", sql)
         ELSE sql
    ELSE code

(***************************************************************************)
(* bridge, lines 123-128: the payload as handed to the bridge function.    *)
(* Undefined stands for null and undefined (payload == null).              *)
(***************************************************************************)
PayloadString(payload) ==
    IF payload.t = "undefined" THEN Undefined
    ELSE IF payload.t = "string" THEN payload
    ELSE JsonStringify(payload)

(***************************************************************************)
(* bridge, line 139: what the request returns for a response.  threw is    *)
(* the SyntaxError of JSON.parse, which rejects the request.               *)
(***************************************************************************)
BridgeReturnVerbatimOnError(response) ==
    IF response.t = "string"
    THEN LET parsed == JsonParse(response.s) IN
         [threw |-> FALSE, value |-> IF parsed.ok THEN parsed.val ELSE response]
    ELSE [threw |-> FALSE, value |-> response]

BridgeReturn(response) ==
    IF response.t = "string"
    THEN LET parsed == JsonParse(response.s) IN
         [threw |-> ~parsed.ok, value |-> parsed.val]
    ELSE [threw |-> FALSE, value |-> response]

(***************************************************************************)
(* MessageBuffer (core/wasm/worker/message-buffer): a FIFO queue that      *)
(* holds what is pushed until start(), then hands every held message to    *)
(* the callback in push order, and from then on hands each push over at    *)
(* once.  The callback is the one of lines 47-51.                          *)
(***************************************************************************)
KernelMessageCallback(log, message) == RpcSend(log, "kernelMessage", message)

RECURSIVE FlushBuffer(_, _)
FlushBuffer(log, buffer) ==
    IF buffer = <<>> THEN log
    ELSE FlushBuffer(KernelMessageCallback(log, Head(buffer)), Tail(buffer))

MessageBufferPush(mb, log, message) ==
    IF mb.started
    THEN [mb |-> mb, log |-> KernelMessageCallback(log, message)]
    ELSE [mb |-> [mb EXCEPT !.buffer = Append(@, message)], log |-> log]

MessageBufferStart(mb, log) ==
    [mb |-> [started |-> TRUE, buffer |-> <<>>],
     log |-> FlushBuffer(log, mb.buffer)]

(***************************************************************************)
(* The message sink handed to the session, line 70.                        *)
(***************************************************************************)
OnMessageDirect(mb, log, message) ==
    [mb |-> mb, log |-> KernelMessageCallback(log, message)]

OnMessageBoth(mb, log, message) ==
    MessageBufferPush(mb, KernelMessageCallback(log, message), message)

OnMessage(mb, log, message) == MessageBufferPush(mb, log, message)

(***************************************************************************)
(* Deferred (utils/Deferred): a promise with its resolve function.  A      *)
(* promise is settled once: resolving a resolved one changes nothing.      *)
(***************************************************************************)
NewDeferred == [status |-> "pending", value |-> 0]

DeferredResolve(d, value) ==
    IF d.status = "pending" THEN [status |-> "resolved", value |-> value] ELSE d

(***************************************************************************)
(* startSession, line 72.                                                  *)
(***************************************************************************)
ResolveBridgeDropped(d, bridge) == d

ResolveBridgeReplace(d, bridge) == [status |-> "resolved", value |-> bridge]

ResolveBridge(d, bridge) == DeferredResolve(d, bridge)

(***************************************************************************)
(* loadPyodideAndPackages, lines 38-43: the catch reports the failure; the *)
(* function then returns normally, so its promise is fulfilled.            *)
(***************************************************************************)
LoadPyodideCatchSilent(log) == log

LoadPyodideCatch(log) == RpcSend(log, "initializedError", 0)

PromiseNeverSettles == "pending"

PromiseAfterCatch == "fulfilled"

(***************************************************************************)
(* `await pyodideReadyPromise` (lines 60, 86, 115, 172) lets its handler   *)
(* go on once the promise is fulfilled.                                    *)
(***************************************************************************)
PyodideReadyAwaited == pyodideReadyPromise = "fulfilled"

(***************************************************************************)
(* Requests.  pc is the handler's position: "awaitBoot" at the await of    *)
(* pyodideReadyPromise, "mounting" / "starting" / "installing" / "calling" *)
(* at the await of the call made, "awaitBridge" at the await of            *)
(* bridgeReady.promise, "resolved" / "rejected" once the request has       *)
(* answered its caller.  sentInitialized and sentError count the           *)
(* initialized and initializedError messages the handler has sent, calls   *)
(* the calls of the named bridge function it has made; afterFailure says   *)
(* that the request was issued after the bootstrap had failed.             *)
(***************************************************************************)
NoRequest ==
    [kind |-> "none", pc |-> "idle", code |-> <<>>, text |-> <<>>,
     functionName |-> "", payload |-> Undefined, arg |-> Undefined,
     bridge |-> 0, response |-> Undefined, result |-> Undefined,
     failedAt |-> "none", sentInitialized |-> 0, sentError |-> 0,
     afterFailure |-> FALSE, calls |-> 0]

BridgeFunctions == {"fn"}

(* The inputs the requests of the worker are drawn from. *)
SampleCodes == {<<"x = 1\n">>, <<"polars", "mo.sql">>}
SamplePayloads == {Undefined, Arr(<<Num(1)>>)}
SampleResponses == {Str(<<"[", "1", "]">>), Str(<<"[">>)}

Issued(r) == reqs[r].kind # "none"
CanIssue(r) ==
    /\ workerLoaded
    /\ ~Issued(r)
    /\ IF r = 1 THEN TRUE ELSE Issued(r - 1)

(***************************************************************************)
(* The editor before it is rendered: an empty layout document, no item     *)
(* being dropped (line 67), unlocked (line 68), nothing on the App         *)
(* element.                                                                *)
(***************************************************************************)
NoItem == [i |-> 0, w |-> 0, h |-> 0]

NoOp == [op |-> "none", id |-> 0, n |-> 0]

(* A history that keeps the first keep handler runs. *)
NoHistory(keep) == [keep |-> keep, ops |-> <<>>]

EmptyMap == <<>>

EmptyLayout ==
    [columns |-> 4, rowHeight |-> 1, maxWidth |-> 0, bordered |-> FALSE,
     cells |-> <<>>, scrollableCells |-> {}, cellSide |-> EmptyMap]

GridNotRendered ==
    /\ layout = EmptyLayout
    /\ droppingItem = NoItem
    /\ isLocked = FALSE
    /\ mode = "edit"
    /\ mounted = FALSE
    /\ appClassList = {}
    /\ dragging = FALSE
    /\ lastOp = NoOp
    /\ history = NoHistory(0)

InitWorker ==
    /\ workerLoaded = FALSE
    /\ controller = "unset"
    /\ pyodide = "unset"
    /\ pyodideReadyPromise = "pending"
    /\ bootstrapFailed = FALSE
    /\ messageBuffer = [started |-> FALSE, buffer |-> <<>>]
    /\ bridgeReady = NewDeferred
    /\ sent = <<>>
    /\ pushed = <<>>
    /\ flushed = 0
    /\ nBridges = 0
    /\ resolvedWith = <<>>
    /\ consumerReadyReceived = 0
    /\ consumerWaiting = 0
    /\ reqs = [r \in ReqIds |-> NoRequest]

Init == InitWorker /\ GridNotRendered

(***************************************************************************)
(* The module body, lines 46-174: loadPyodideAndPackages runs up to its    *)
(* await (the controller is created, bootstrap is under way), the buffer   *)
(* and the deferred are created, the handlers are installed and "ready"    *)
(* is sent.  All of it is one synchronous turn.                            *)
(***************************************************************************)
WorkerStartupWithoutReady ==
    /\ ~workerLoaded
    /\ workerLoaded' = TRUE
    /\ controller' = "created"
    /\ messageBuffer' = [started |-> FALSE, buffer |-> <<>>]
    /\ bridgeReady' = NewDeferred
    /\ UNCHANGED <<pyodide, pyodideReadyPromise, bootstrapFailed, sent, pushed,
                   flushed, nBridges, resolvedWith, consumerReadyReceived,
                   consumerWaiting, reqs>>
    /\ UNCHANGED gridVars

WorkerStartup ==
    /\ ~workerLoaded
    /\ workerLoaded' = TRUE
    /\ controller' = "created"
    /\ messageBuffer' = [started |-> FALSE, buffer |-> <<>>]
    /\ bridgeReady' = NewDeferred
    /\ sent' = RpcSend(sent, "ready", 0)
    /\ UNCHANGED <<pyodide, pyodideReadyPromise, bootstrapFailed, pushed,
                   flushed, nBridges, resolvedWith, consumerReadyReceived,
                   consumerWaiting, reqs>>
    /\ UNCHANGED gridVars

(* controller.bootstrap resolves: lines 34-37, 44. *)
BootstrapOk ==
    /\ workerLoaded
    /\ pyodideReadyPromise = "pending"
    /\ ~bootstrapFailed
    /\ pyodide' = "loaded"
    /\ pyodideReadyPromise' = "fulfilled"
    /\ UNCHANGED <<workerLoaded, controller, bootstrapFailed, messageBuffer,
                   bridgeReady, sent, pushed, flushed, nBridges, resolvedWith,
                   consumerReadyReceived, consumerWaiting, reqs>>
    /\ UNCHANGED gridVars

(* controller.bootstrap rejects: lines 38-44. *)
BootstrapFail ==
    /\ workerLoaded
    /\ pyodideReadyPromise = "pending"
    /\ ~bootstrapFailed
    /\ bootstrapFailed' = TRUE
    /\ sent' = LoadPyodideCatch(sent)
    /\ pyodideReadyPromise' = PromiseAfterCatch
    /\ UNCHANGED <<workerLoaded, controller, pyodide, messageBuffer,
                   bridgeReady, pushed, flushed, nBridges, resolvedWith,
                   consumerReadyReceived, consumerWaiting, reqs>>
    /\ UNCHANGED gridVars

(***************************************************************************)
(* consumerReady, lines 171-174.                                           *)
(***************************************************************************)
ConsumerReady ==
    /\ workerLoaded
    /\ consumerReadyReceived < MaxConsumerReady
    /\ consumerReadyReceived' = consumerReadyReceived + 1
    /\ consumerWaiting' = consumerWaiting + 1
    /\ UNCHANGED <<workerLoaded, controller, pyodide, pyodideReadyPromise,
                   bootstrapFailed, messageBuffer, bridgeReady, sent, pushed, flushed,
                   nBridges, resolvedWith, reqs>>
    /\ UNCHANGED gridVars

ConsumerReadyStart ==
    /\ consumerWaiting > 0
    /\ PyodideReadyAwaited
    /\ consumerWaiting' = consumerWaiting - 1
    /\ LET started == MessageBufferStart(messageBuffer, sent) IN
       /\ messageBuffer' = started.mb
       /\ sent' = started.log
       /\ flushed' = flushed + Len(messageBuffer.buffer)
    /\ UNCHANGED <<workerLoaded, controller, pyodide, pyodideReadyPromise,
                   bootstrapFailed, bridgeReady, pushed, nBridges, resolvedWith,
                   consumerReadyReceived, reqs>>
    /\ UNCHANGED gridVars

(***************************************************************************)
(* startSession, lines 59-80.                                              *)
(***************************************************************************)
StartSessionRequest(r) ==
    /\ CanIssue(r)
    /\ reqs' = [reqs EXCEPT ![r] =
                  [NoRequest EXCEPT !.kind = "startSession", !.pc = "awaitBoot",
                                    !.afterFailure = bootstrapFailed]]
    /\ UNCHANGED <<workerLoaded, controller, pyodide, pyodideReadyPromise,
                   bootstrapFailed, messageBuffer, bridgeReady, sent, pushed, flushed,
                   nBridges, resolvedWith, consumerReadyReceived, consumerWaiting>>
    /\ UNCHANGED gridVars

StartSessionRethrow(r, stage) ==
    /\ sent' = sent
    /\ reqs' = [reqs EXCEPT ![r].pc = "rejected", ![r].failedAt = stage]

(* The catch of lines 74-78, then the return of line 79. *)
StartSessionCatch(r, stage) ==
    /\ sent' = RpcSend(sent, "initializedError", 0)
    /\ reqs' = [reqs EXCEPT ![r].pc = "resolved", ![r].failedAt = stage,
                            ![r].sentError = @ + 1]

(* Lines 60-67: past the await, the invariant, the call of mountFilesystem. *)
StartSessionMount(r) ==
    /\ reqs[r].kind = "startSession"
    /\ reqs[r].pc = "awaitBoot"
    /\ PyodideReadyAwaited
    /\ IF controller = "created"
       THEN /\ reqs' = [reqs EXCEPT ![r].pc = "mounting"]
            /\ UNCHANGED sent
       ELSE StartSessionCatch(r, "invariant")
    /\ UNCHANGED <<workerLoaded, controller, pyodide, pyodideReadyPromise,
                   bootstrapFailed, messageBuffer, bridgeReady, pushed, flushed, nBridges,
                   resolvedWith, consumerReadyReceived, consumerWaiting>>
    /\ UNCHANGED gridVars

(* Lines 64-71: mountFilesystem settles; on success startSession is called *)
(* with the sink.                                                          *)
StartSessionMounted(r, ok) ==
    /\ reqs[r].kind = "startSession"
    /\ reqs[r].pc = "mounting"
    /\ IF ok
       THEN /\ reqs' = [reqs EXCEPT ![r].pc = "starting"]
            /\ UNCHANGED sent
       ELSE StartSessionCatch(r, "mount")
    /\ UNCHANGED <<workerLoaded, controller, pyodide, pyodideReadyPromise,
                   bootstrapFailed, messageBuffer, bridgeReady, pushed, flushed, nBridges,
                   resolvedWith, consumerReadyReceived, consumerWaiting>>
    /\ UNCHANGED gridVars

(* Lines 68-79: controller.startSession settles. *)
StartSessionStarted(r, ok) ==
    /\ reqs[r].kind = "startSession"
    /\ reqs[r].pc = "starting"
    /\ IF ok
       THEN /\ nBridges' = nBridges + 1
            /\ bridgeReady' = ResolveBridge(bridgeReady, nBridges + 1)
            /\ resolvedWith' = Append(resolvedWith, nBridges + 1)
            /\ sent' = RpcSend(sent, "initialized", 0)
            /\ reqs' = [reqs EXCEPT ![r].pc = "resolved",
                                    ![r].sentInitialized = @ + 1]
       ELSE /\ StartSessionCatch(r, "start")
            /\ UNCHANGED <<bridgeReady, nBridges, resolvedWith>>
    /\ UNCHANGED <<workerLoaded, controller, pyodide, pyodideReadyPromise,
                   bootstrapFailed, messageBuffer, pushed, flushed, consumerReadyReceived,
                   consumerWaiting>>
    /\ UNCHANGED gridVars

(***************************************************************************)
(* A session the controller was asked to start calls its sink (line 70).   *)
(* The message pushed is named by its place in the push order.             *)
(***************************************************************************)
SinkHandedOut ==
    \E r \in ReqIds :
        /\ reqs[r].kind = "startSession"
        /\ \/ reqs[r].pc = "starting"
           \/ reqs[r].pc = "resolved" /\ reqs[r].failedAt \in {"none", "start"}

SessionMessage ==
    /\ SinkHandedOut
    /\ Len(pushed) < MaxPush
    /\ LET message == Len(pushed) + 1
           after == OnMessage(messageBuffer, sent, message) IN
       /\ pushed' = Append(pushed, message)
       /\ messageBuffer' = after.mb
       /\ sent' = after.log
    /\ UNCHANGED <<workerLoaded, controller, pyodide, pyodideReadyPromise,
                   bootstrapFailed, bridgeReady, flushed, nBridges, resolvedWith,
                   consumerReadyReceived, consumerWaiting, reqs>>
    /\ UNCHANGED gridVars

(***************************************************************************)
(* loadPackages, lines 85-106.                                             *)
(***************************************************************************)
LoadPackagesRequest(r, code) ==
    /\ CanIssue(r)
    /\ reqs' = [reqs EXCEPT ![r] =
                  [NoRequest EXCEPT !.kind = "loadPackages", !.pc = "awaitBoot",
                                    !.code = code,
                                    !.afterFailure = bootstrapFailed]]
    /\ UNCHANGED <<workerLoaded, controller, pyodide, pyodideReadyPromise,
                   bootstrapFailed, messageBuffer, bridgeReady, sent, pushed, flushed,
                   nBridges, resolvedWith, consumerReadyReceived, consumerWaiting>>
    /\ UNCHANGED gridVars

(* Lines 86-105: past the await, the imports, the call of                  *)
(* self.pyodide.loadPackagesFromImports; with self.pyodide unset the call  *)
(* is a TypeError, which rejects the request.                              *)
LoadPackagesInstall(r) ==
    /\ reqs[r].kind = "loadPackages"
    /\ reqs[r].pc = "awaitBoot"
    /\ PyodideReadyAwaited
    /\ reqs' = [reqs EXCEPT
                  ![r].pc = IF pyodide = "loaded" THEN "installing" ELSE "rejected",
                  ![r].text = IF pyodide = "loaded"
                              THEN InstallText(reqs[r].code) ELSE <<>>,
                  ![r].failedAt = IF pyodide = "loaded" THEN "none" ELSE "pyodide"]
    /\ UNCHANGED <<workerLoaded, controller, pyodide, pyodideReadyPromise,
                   bootstrapFailed, messageBuffer, bridgeReady, sent, pushed, flushed,
                   nBridges, resolvedWith, consumerReadyReceived, consumerWaiting>>
    /\ UNCHANGED gridVars

(* Lines 102-106: loadPackagesFromImports settles. *)
LoadPackagesInstalled(r, ok) ==
    /\ reqs[r].kind = "loadPackages"
    /\ reqs[r].pc = "installing"
    /\ reqs' = [reqs EXCEPT
                  ![r].pc = IF ok THEN "resolved" ELSE "rejected",
                  ![r].failedAt = IF ok THEN "none" ELSE "install"]
    /\ UNCHANGED <<workerLoaded, controller, pyodide, pyodideReadyPromise,
                   bootstrapFailed, messageBuffer, bridgeReady, sent, pushed, flushed,
                   nBridges, resolvedWith, consumerReadyReceived, consumerWaiting>>
    /\ UNCHANGED gridVars

(***************************************************************************)
(* bridge, lines 111-140.                                                  *)
(***************************************************************************)
BridgeRequest(r, functionName, payload) ==
    /\ CanIssue(r)
    /\ reqs' = [reqs EXCEPT ![r] =
                  [NoRequest EXCEPT !.kind = "bridge", !.pc = "awaitBoot",
                                    !.functionName = functionName,
                                    !.payload = payload,
                                    !.afterFailure = bootstrapFailed]]
    /\ UNCHANGED <<workerLoaded, controller, pyodide, pyodideReadyPromise,
                   bootstrapFailed, messageBuffer, bridgeReady, sent, pushed, flushed,
                   nBridges, resolvedWith, consumerReadyReceived, consumerWaiting>>
    /\ UNCHANGED gridVars

(* Lines 115-120: past the first await, on to the await of the handle. *)
BridgeAwaitHandle(r) ==
    /\ reqs[r].kind = "bridge"
    /\ reqs[r].pc = "awaitBoot"
    /\ PyodideReadyAwaited
    /\ reqs' = [reqs EXCEPT ![r].pc = "awaitBridge"]
    /\ UNCHANGED <<workerLoaded, controller, pyodide, pyodideReadyPromise,
                   bootstrapFailed, messageBuffer, bridgeReady, sent, pushed, flushed,
                   nBridges, resolvedWith, consumerReadyReceived, consumerWaiting>>
    /\ UNCHANGED gridVars

BridgeCallWithoutHandle(r) ==
    /\ reqs[r].kind = "bridge"
    /\ reqs[r].pc = "awaitBridge"
    /\ reqs' = [reqs EXCEPT ![r].pc = "calling",
                            ![r].bridge = bridgeReady.value,
                            ![r].arg = PayloadString(reqs[r].payload),
                            ![r].calls = @ + 1]
    /\ UNCHANGED <<workerLoaded, controller, pyodide, pyodideReadyPromise,
                   bootstrapFailed, messageBuffer, bridgeReady, sent, pushed,
                   flushed, nBridges, resolvedWith, consumerReadyReceived,
                   consumerWaiting>>
    /\ UNCHANGED gridVars

(* The handle wakes one waiter only: no request has been woken before. *)
BridgeCallOneWaiter(r) ==
    /\ reqs[r].kind = "bridge"
    /\ reqs[r].pc = "awaitBridge"
    /\ bridgeReady.status = "resolved"
    /\ \A q \in ReqIds : reqs[q].calls = 0
    /\ reqs' = [reqs EXCEPT ![r].pc = "calling",
                            ![r].bridge = bridgeReady.value,
                            ![r].arg = PayloadString(reqs[r].payload),
                            ![r].calls = @ + 1]
    /\ UNCHANGED <<workerLoaded, controller, pyodide, pyodideReadyPromise,
                   bootstrapFailed, messageBuffer, bridgeReady, sent, pushed, flushed,
                   nBridges, resolvedWith, consumerReadyReceived, consumerWaiting>>
    /\ UNCHANGED gridVars

(* Lines 120-136: the handle is there; the payload is serialized and the   *)
(* named function of the bridge is called.                                 *)
BridgeCall(r) ==
    /\ reqs[r].kind = "bridge"
    /\ reqs[r].pc = "awaitBridge"
    /\ bridgeReady.status = "resolved"
    /\ reqs' = [reqs EXCEPT ![r].pc = "calling",
                            ![r].bridge = bridgeReady.value,
                            ![r].arg = PayloadString(reqs[r].payload),
                            ![r].calls = @ + 1]
    /\ UNCHANGED <<workerLoaded, controller, pyodide, pyodideReadyPromise,
                   bootstrapFailed, messageBuffer, bridgeReady, sent, pushed, flushed,
                   nBridges, resolvedWith, consumerReadyReceived, consumerWaiting>>
    /\ UNCHANGED gridVars

(* Lines 131-139: the function resolves with a response. *)
BridgeResponse(r, response) ==
    /\ reqs[r].kind = "bridge"
    /\ reqs[r].pc = "calling"
    /\ LET ret == BridgeReturn(response) IN
       reqs' = [reqs EXCEPT
                  ![r].pc = IF ret.threw THEN "rejected" ELSE "resolved",
                  ![r].response = response,
                  ![r].result = ret.value,
                  ![r].failedAt = IF ret.threw THEN "parse" ELSE "none"]
    /\ UNCHANGED <<workerLoaded, controller, pyodide, pyodideReadyPromise,
                   bootstrapFailed, messageBuffer, bridgeReady, sent, pushed, flushed,
                   nBridges, resolvedWith, consumerReadyReceived, consumerWaiting>>
    /\ UNCHANGED gridVars

(* Lines 131-136: the function rejects, and so does the request. *)
BridgeRejectedReported(r) ==
    /\ reqs[r].kind = "bridge"
    /\ reqs[r].pc = "calling"
    /\ reqs' = [reqs EXCEPT ![r].pc = "resolved", ![r].failedAt = "call",
                            ![r].sentError = @ + 1]
    /\ sent' = RpcSend(sent, "initializedError", 0)
    /\ UNCHANGED <<workerLoaded, controller, pyodide, pyodideReadyPromise,
                   bootstrapFailed, messageBuffer, bridgeReady, pushed, flushed,
                   nBridges, resolvedWith, consumerReadyReceived, consumerWaiting>>
    /\ UNCHANGED gridVars

BridgeRejected(r) ==
    /\ reqs[r].kind = "bridge"
    /\ reqs[r].pc = "calling"
    /\ reqs' = [reqs EXCEPT ![r].pc = "rejected", ![r].failedAt = "call"]
    /\ UNCHANGED <<workerLoaded, controller, pyodide, pyodideReadyPromise,
                   bootstrapFailed, messageBuffer, bridgeReady, sent, pushed, flushed,
                   nBridges, resolvedWith, consumerReadyReceived, consumerWaiting>>
    /\ UNCHANGED gridVars

Next ==
    \/ WorkerStartup
    \/ BootstrapOk
    \/ BootstrapFail
    \/ ConsumerReady
    \/ ConsumerReadyStart
    \/ SessionMessage
    \/ \E r \in ReqIds : StartSessionRequest(r)
    \/ \E r \in ReqIds : StartSessionMount(r)
    \/ \E r \in ReqIds, ok \in BOOLEAN : StartSessionMounted(r, ok)
    \/ \E r \in ReqIds, ok \in BOOLEAN : StartSessionStarted(r, ok)
    \/ \E r \in ReqIds, code \in SampleCodes : LoadPackagesRequest(r, code)
    \/ \E r \in ReqIds : LoadPackagesInstall(r)
    \/ \E r \in ReqIds, ok \in BOOLEAN : LoadPackagesInstalled(r, ok)
    \/ \E r \in ReqIds, f \in BridgeFunctions, payload \in SamplePayloads :
          BridgeRequest(r, f, payload)
    \/ \E r \in ReqIds : BridgeAwaitHandle(r)
    \/ \E r \in ReqIds : BridgeCall(r)
    \/ \E r \in ReqIds, response \in SampleResponses : BridgeResponse(r, response)
    \/ \E r \in ReqIds : BridgeRejected(r)

Spec == Init /\ [][Next]_vars

(***************************************************************************)
(* The worker with one loadPackages request, its code drawn from every     *)
(* text of at most MaxCodeLen pieces.                                      *)
(***************************************************************************)
SeqsUpTo(S, n) == UNION {[1..k -> S] : k \in 0..n}

UserCodes == SeqsUpTo(Pieces, MaxCodeLen)

NextLoadPackages ==
    \/ WorkerStartup
    \/ BootstrapOk
    \/ BootstrapFail
    \/ \E code \in UserCodes : LoadPackagesRequest(1, code)
    \/ LoadPackagesInstall(1)
    \/ \E ok \in BOOLEAN : LoadPackagesInstalled(1, ok)

SpecLoadPackages == Init /\ [][NextLoadPackages]_vars

(***************************************************************************)
(* The worker with one startSession request and one bridge request, the    *)
(* response of the bridge function drawn from undefined, an array, and     *)
(* every string of at most MaxResponseLen characters of JsonChars.         *)
(***************************************************************************)
JsonChars == {"[", "]", ",", "1"}

Responses ==
    {Undefined, Arr(<<Num(1)>>)}
        \cup {Str(chars) : chars \in SeqsUpTo(JsonChars, MaxResponseLen)}

Payloads == {Undefined, Str(<<"1">>), Str(<<"[">>), Num(1), Arr(<<Num(1), Num(11)>>)}

NextBridge ==
    \/ WorkerStartup
    \/ BootstrapOk
    \/ StartSessionRequest(1)
    \/ StartSessionMount(1)
    \/ \E ok \in BOOLEAN : StartSessionMounted(1, ok)
    \/ \E ok \in BOOLEAN : StartSessionStarted(1, ok)
    \/ \E f \in BridgeFunctions, payload \in Payloads : BridgeRequest(2, f, payload)
    \/ BridgeAwaitHandle(2)
    \/ BridgeCall(2)
    \/ \E response \in Responses : BridgeResponse(2, response)
    \/ BridgeRejected(2)

SpecBridge == Init /\ [][NextBridge]_vars

(***************************************************************************)
(* The grid layout editor, grid-layout.tsx.                                *)
(*                                                                         *)
(* The layout document is a record                                         *)
(*   [columns, rowHeight, maxWidth, bordered, cells, scrollableCells,      *)
(*    cellSide].                                                           *)
(* cells is the list of placed cells, each [i, x, y, w, h]; a width is     *)
(* counted in quarters of a column, so that layout.columns / 4 (line 316)  *)
(* is exact.  maxWidth 0 stands for undefined.  cellSide is a Map: a       *)
(* function whose domain is the set of ids that have an entry.             *)
(*                                                                         *)
(* The notebook has the cells 1..MaxCells, in this order (props.cells).    *)
(***************************************************************************)
MaxCells == 2
MaxOps == 5

CellIds == 1..MaxCells

Sides == {"left", "right"}

Entry(i, x, y, w, h) == [i |-> i, x |-> x, y |-> y, w |-> w, h |-> h]

NoEntry == Entry(0, 0, 0, 0, 0)

WholeColumns(n) == 4 * n

MapGet(m, k) == IF k \in DOMAIN m THEN m[k] ELSE "undefined"

MapSet(m, k, v) == [x \in DOMAIN m \cup {k} |-> IF x = k THEN v ELSE m[x]]

MapDelete(m, k) == [x \in DOMAIN m \ {k} |-> m[x]]

(* Line 62. *)
InGridIds(l) == {l.cells[k].i : k \in DOMAIN l.cells}

(* Line 268: the cells of the tray. *)
NotInGrid(l) == {c \in CellIds : c \notin InGridIds(l)}

EnableInteractionsWhenLocked == mode # "read"

(* Line 96. *)
EnableInteractions == mode # "read" /\ ~isLocked

(* Lines 99-110. *)
HandleMakeScrollableAlwaysAdds(l, cellId, isScrollable) ==
    [l EXCEPT !.scrollableCells = @ \cup {cellId}]

HandleMakeScrollable(l, cellId, isScrollable) ==
    [l EXCEPT !.scrollableCells =
        IF isScrollable THEN @ \cup {cellId} ELSE @ \ {cellId}]

(* Lines 112-123. *)
HandleSetSideAlwaysSets(l, cellId, side) ==
    [l EXCEPT !.cellSide = MapSet(@, cellId, side)]

HandleSetSide(l, cellId, side) ==
    [l EXCEPT !.cellSide =
        IF side = MapGet(@, cellId)
        THEN MapDelete(@, cellId)
        ELSE MapSet(@, cellId, side)]

(* Lines 161-166. *)
OnLayoutChangeAppending(l, cellLayouts) ==
    [l EXCEPT !.cells = @ \o cellLayouts]

OnLayoutChange(l, cellLayouts) == [l EXCEPT !.cells = cellLayouts]

(* Lines 176-185; NoEntry stands for an undefined dropped. *)
OnDrop(l, cellLayouts, dropped) ==
    IF dropped = NoEntry
    THEN l
    ELSE [l EXCEPT !.cells = cellLayouts \o <<dropped>>]

(* Lines 235-240. *)
OnDeleteFirst(l, cellId) ==
    [l EXCEPT !.cells =
        IF @ = <<>> THEN @ ELSE Tail(@)]

OnDeleteForgets(l, cellId) ==
    [l EXCEPT !.cells = SelectSeq(@, LAMBDA c : c.i # cellId),
              !.scrollableCells = @ \ {cellId},
              !.cellSide = MapDelete(@, cellId)]

OnDelete(l, cellId) ==
    [l EXCEPT !.cells = SelectSeq(@, LAMBDA c : c.i # cellId)]

(* Math.ceil(a / b) for integers a >= 0, b >= 1. *)
Ceil(a, b) == (a + b - 1) \div b

TrayItemRoundsDown(l, cellId, height) ==
    [i |-> cellId,
     w |-> l.columns,
     h |-> IF height \div l.rowHeight = 0 THEN 1 ELSE height \div l.rowHeight]

(* Lines 312-318: the item of a tray cell whose element is height pixels   *)
(* high; x || 1 is 1 when x is 0.                                          *)
TrayItem(l, cellId, height) ==
    [i |-> cellId,
     w |-> l.columns,
     h |-> IF Ceil(height, l.rowHeight) = 0 THEN 1 ELSE Ceil(height, l.rowHeight)]

(* Lines 167-175: the droppingItem prop; x || 2 is 2 when x is 0. *)
DroppingItemProp(item) ==
    IF item = NoItem
    THEN NoItem
    ELSE [i |-> item.i,
          w |-> IF item.w = 0 THEN WholeColumns(2) ELSE item.w,
          h |-> IF item.h = 0 THEN 2 ELSE item.h]

(* Lines 470-473, 418-421, 435-438, 452-455: the fields of GridControls.   *)
(* A cleared max-width field reports NaN, here IsNaN.                      *)
SetColumns(l, valueAsNumber) == [l EXCEPT !.columns = valueAsNumber]

SetRowHeight(l, valueAsNumber) == [l EXCEPT !.rowHeight = valueAsNumber]

SetMaxWidth(l, isNaN, valueAsNumber) ==
    [l EXCEPT !.maxWidth = IF isNaN THEN 0 ELSE valueAsNumber]

SetBordered(l, bordered) == [l EXCEPT !.bordered = bordered]

(***************************************************************************)
(* The effect of lines 81-92, with the deps [layout.bordered]: it runs     *)
(* after the first render and after every render in which layout.bordered  *)
(* has changed, its cleanup running first; the cleanup also runs at        *)
(* unmount.                                                                *)
(***************************************************************************)
EffectCleanupKeepsClass(classList) == classList

EffectCleanup(classList) == classList \ {"grid-bordered"}

Effect(l, classList) ==
    IF l.bordered
    THEN classList \cup {"grid-bordered"}
    ELSE classList \ {"grid-bordered"}

Commit(old, new, classList) ==
    IF new.bordered # old.bordered
    THEN Effect(new, EffectCleanup(classList))
    ELSE classList

(***************************************************************************)
(* The grid library (react-grid-layout) as the editor uses it.  It gets    *)
(* layout.cells (lines 140-142) and one child per notebook cell that is in *)
(* the grid, keyed by the cell id, in notebook order (lines 205-248), and  *)
(* keeps one item per child: the first entry of layout.cells with the      *)
(* child's key.  It reports its items through onLayoutChange, and at a     *)
(* drop through onDrop.  With preventCollision and compactType null        *)
(* (lines 158-159) a drag or a resize changes the item it is about and no  *)
(* other.                                                                  *)
(***************************************************************************)
FirstEntry(cellLayouts, id) ==
    cellLayouts[CHOOSE k \in DOMAIN cellLayouts :
                    /\ cellLayouts[k].i = id
                    /\ \A j \in 1..(k - 1) : cellLayouts[j].i # id]

RECURSIVE ChildrenFrom(_, _)
ChildrenFrom(l, id) ==
    IF id > MaxCells
    THEN <<>>
    ELSE (IF id \in InGridIds(l) THEN <<FirstEntry(l.cells, id)>> ELSE <<>>)
             \o ChildrenFrom(l, id + 1)

GridItems(l) == ChildrenFrom(l, 1)

ItemMoved(items, id, x, y) ==
    [k \in DOMAIN items |->
        IF items[k].i = id
        THEN Entry(id, x, y, items[k].w, items[k].h)
        ELSE items[k]]

ItemResized(items, id, w, h) ==
    [k \in DOMAIN items |->
        IF items[k].i = id
        THEN Entry(id, items[k].x, items[k].y, w, h)
        ELSE items[k]]

Placeholder(item, x, y) == Entry(item.i, x, y, item.w, item.h)

(***************************************************************************)
(* The values the gestures and the fields of the controls deliver.         *)
(***************************************************************************)
DragTargets == {<<0, 0>>, <<1, 1>>}

ResizeTargets == {<<WholeColumns(2), 2>>}

DropTargets == {<<0, 0>>}

ColumnCounts == {4, 6}

RowHeights == {1, 2}

PixelHeights == {3}

MaxWidths == {100}

InitialLayouts ==
    {EmptyLayout,
     [EmptyLayout EXCEPT !.bordered = TRUE,
                         !.cells = <<Entry(2, 1, 1, WholeColumns(1), 1)>>]}

(* The record of a handler that ran: its name, the cell it was about, and  *)
(* how many handlers have run so far.                                      *)
Op(op, id) == [op |-> op, id |-> id, n |-> lastOp.n + 1]

CanAct == mounted /\ lastOp.n < MaxOps

Remember(h, l, op, id, arg) ==
    IF Len(h.ops) < h.keep
    THEN [h EXCEPT !.ops = Append(@, [op |-> op, id |-> id, arg |-> arg,
                                      before |-> l])]
    ELSE h

(* The handler op has run for cell id with the argument arg. *)
Ran(op, id, arg) ==
    /\ lastOp' = Op(op, id)
    /\ history' = Remember(history, layout, op, id, arg)

(* setLayout, then the render and the effects it brings. *)
SetLayout(new) ==
    /\ layout' = new
    /\ appClassList' = Commit(layout, new, appClassList)

InitGrid ==
    /\ InitWorker
    /\ layout \in InitialLayouts
    /\ mode \in {"edit", "read"}
    /\ droppingItem = NoItem
    /\ isLocked = FALSE
    /\ mounted = FALSE
    /\ appClassList = {}
    /\ dragging = FALSE
    /\ lastOp = NoOp
    /\ history = NoHistory(0)

(* The first render: the state of lines 63-68, the effect of lines 81-88. *)
Mount ==
    /\ ~mounted
    /\ mounted' = TRUE
    /\ droppingItem' = NoItem
    /\ isLocked' = FALSE
    /\ dragging' = FALSE
    /\ appClassList' = Effect(layout, appClassList)
    /\ lastOp' = [lastOp EXCEPT !.op = "mount", !.id = 0]
    /\ UNCHANGED history
    /\ UNCHANGED <<layout, mode>>
    /\ UNCHANGED workerVars

(* Teardown: the cleanup of lines 89-91. *)
Unmount ==
    /\ mounted
    /\ mounted' = FALSE
    /\ dragging' = FALSE
    /\ appClassList' = EffectCleanup(appClassList)
    /\ lastOp' = [lastOp EXCEPT !.op = "unmount", !.id = 0]
    /\ UNCHANGED history
    /\ UNCHANGED <<layout, mode, droppingItem, isLocked>>
    /\ UNCHANGED workerVars

(* The user drags a placed cell to (x, y); the library follows the gesture *)
(* when isDraggable (line 200) and reports through onLayoutChange.         *)
GridDrag(id, x, y) ==
    /\ CanAct
    /\ ~dragging
    /\ id \in InGridIds(layout)
    /\ IF EnableInteractions
       THEN SetLayout(OnLayoutChange(layout,
                                     ItemMoved(GridItems(layout), id, x, y)))
       ELSE UNCHANGED <<layout, appClassList>>
    /\ Ran("drag", id, "")
    /\ UNCHANGED <<droppingItem, isLocked, mode, mounted, dragging>>
    /\ UNCHANGED workerVars

(* The user resizes a placed cell to w by h; isResizable is line 202. *)
GridResize(id, w, h) ==
    /\ CanAct
    /\ ~dragging
    /\ id \in InGridIds(layout)
    /\ IF EnableInteractions
       THEN SetLayout(OnLayoutChange(layout,
                                     ItemResized(GridItems(layout), id, w, h)))
       ELSE UNCHANGED <<layout, appClassList>>
    /\ Ran("resize", id, "")
    /\ UNCHANGED <<droppingItem, isLocked, mode, mounted, dragging>>
    /\ UNCHANGED workerVars

(* The library reports its items after a render that changed them. *)
GridSync ==
    /\ CanAct
    /\ ~dragging
    /\ GridItems(layout) # layout.cells
    /\ SetLayout(OnLayoutChange(layout, GridItems(layout)))
    /\ Ran("sync", 0, "")
    /\ UNCHANGED <<droppingItem, isLocked, mode, mounted, dragging>>
    /\ UNCHANGED workerVars

(* Lines 310-320: the user starts to drag a cell of the tray.  Until the   *)
(* drag ends the browser delivers no other input.                          *)
TrayDragStart(cellId, height) ==
    /\ CanAct
    /\ mode # "read"
    /\ ~dragging
    /\ cellId \in NotInGrid(layout)
    /\ droppingItem' = TrayItem(layout, cellId, height)
    /\ dragging' = TRUE
    /\ Ran("dragstart", cellId, height)
    /\ UNCHANGED <<layout, isLocked, mode, mounted, appClassList>>
    /\ UNCHANGED workerVars

(* What the library may hand to onDrop for a drop at (x, y): its items     *)
(* with the placeholder of the dropping item among them (dropped is looked *)
(* up in the list that is handed over), its items without the              *)
(* placeholder, or no dropped item at all.                                 *)
DropReports(l, item, x, y) ==
    LET dropped == Placeholder(item, x, y) IN
    {<<GridItems(l) \o <<dropped>>, dropped>>,
     <<GridItems(l), dropped>>,
     <<GridItems(l), NoEntry>>}

(* The dragged tray cell is dropped on the grid; the library takes the     *)
(* drop when isDroppable (line 201) and calls onDrop.                      *)
TrayDrop(cellLayouts, dropped) ==
    /\ CanAct
    /\ dragging
    /\ IF EnableInteractions
       THEN SetLayout(OnDrop(layout, cellLayouts, dropped))
       ELSE UNCHANGED <<layout, appClassList>>
    /\ dragging' = FALSE
    /\ Ran("drop", droppingItem.i, dropped)
    /\ UNCHANGED <<droppingItem, isLocked, mode, mounted>>
    /\ UNCHANGED workerVars

(* The drag ends outside the grid. *)
TrayDragEnd ==
    /\ CanAct
    /\ dragging
    /\ dragging' = FALSE
    /\ Ran("dragend", droppingItem.i, "")
    /\ UNCHANGED <<layout, droppingItem, isLocked, mode, mounted, appClassList>>
    /\ UNCHANGED workerVars

(* The hover actions of a placed cell, rendered when enableInteractions    *)
(* (lines 224-244): delete (line 643), the scrollable item (line 628),     *)
(* a side of the side menu (line 611).                                     *)
ClickDelete(id) ==
    /\ CanAct
    /\ ~dragging
    /\ EnableInteractions
    /\ id \in InGridIds(layout)
    /\ SetLayout(OnDelete(layout, id))
    /\ Ran("delete", id, "")
    /\ UNCHANGED <<droppingItem, isLocked, mode, mounted, dragging>>
    /\ UNCHANGED workerVars

ToggleScrollable(id) ==
    /\ CanAct
    /\ ~dragging
    /\ EnableInteractions
    /\ id \in InGridIds(layout)
    /\ SetLayout(HandleMakeScrollable(layout, id,
                                      ~(id \in layout.scrollableCells)))
    /\ Ran("scroll", id, "")
    /\ UNCHANGED <<droppingItem, isLocked, mode, mounted, dragging>>
    /\ UNCHANGED workerVars

SelectSide(id, side) ==
    /\ CanAct
    /\ ~dragging
    /\ EnableInteractions
    /\ id \in InGridIds(layout)
    /\ SetLayout(HandleSetSide(layout, id, side))
    /\ Ran("side", id, side)
    /\ UNCHANGED <<droppingItem, isLocked, mode, mounted, dragging>>
    /\ UNCHANGED workerVars

(* GridControls, rendered unless reading (lines 252-288). *)
ChangeColumns(valueAsNumber) ==
    /\ CanAct
    /\ ~dragging
    /\ mode # "read"
    /\ SetLayout(SetColumns(layout, valueAsNumber))
    /\ Ran("columns", 0, "")
    /\ UNCHANGED <<droppingItem, isLocked, mode, mounted, dragging>>
    /\ UNCHANGED workerVars

ChangeRowHeight(valueAsNumber) ==
    /\ CanAct
    /\ ~dragging
    /\ mode # "read"
    /\ SetLayout(SetRowHeight(layout, valueAsNumber))
    /\ Ran("rowHeight", 0, "")
    /\ UNCHANGED <<droppingItem, isLocked, mode, mounted, dragging>>
    /\ UNCHANGED workerVars

ChangeMaxWidth(isNaN, valueAsNumber) ==
    /\ CanAct
    /\ ~dragging
    /\ mode # "read"
    /\ SetLayout(SetMaxWidth(layout, isNaN, valueAsNumber))
    /\ Ran("maxWidth", 0, "")
    /\ UNCHANGED <<droppingItem, isLocked, mode, mounted, dragging>>
    /\ UNCHANGED workerVars

ToggleBordered ==
    /\ CanAct
    /\ ~dragging
    /\ mode # "read"
    /\ SetLayout(SetBordered(layout, ~layout.bordered))
    /\ Ran("bordered", 0, "")
    /\ UNCHANGED <<droppingItem, isLocked, mode, mounted, dragging>>
    /\ UNCHANGED workerVars

(* Lines 482-488. *)
ToggleLock ==
    /\ CanAct
    /\ ~dragging
    /\ mode # "read"
    /\ isLocked' = ~isLocked
    /\ Ran("lock", 0, "")
    /\ UNCHANGED <<layout, droppingItem, mode, mounted, appClassList, dragging>>
    /\ UNCHANGED workerVars

NextGrid ==
    \/ Mount
    \/ Unmount
    \/ GridSync
    \/ \E id \in CellIds, target \in DragTargets :
          GridDrag(id, target[1], target[2])
    \/ \E id \in CellIds, target \in ResizeTargets :
          GridResize(id, target[1], target[2])
    \/ \E cellId \in CellIds, height \in PixelHeights :
          TrayDragStart(cellId, height)
    \/ \E target \in DropTargets :
          \E report \in DropReports(layout, DroppingItemProp(droppingItem),
                                    target[1], target[2]) :
              TrayDrop(report[1], report[2])
    \/ TrayDragEnd
    \/ \E id \in CellIds : ClickDelete(id)
    \/ \E id \in CellIds : ToggleScrollable(id)
    \/ \E id \in CellIds, side \in Sides : SelectSide(id, side)
    \/ \E n \in ColumnCounts : ChangeColumns(n)
    \/ \E n \in RowHeights : ChangeRowHeight(n)
    \/ \E isNaN \in BOOLEAN, n \in MaxWidths : ChangeMaxWidth(isNaN, n)
    \/ ToggleBordered
    \/ ToggleLock

SpecGrid == InitGrid /\ [][NextGrid]_vars


(***************************************************************************)
(* Properties of the worker.                                               *)
(***************************************************************************)

OfType(type) == SelectSeq(sent, LAMBDA m : m.type = type)

KernelSent == OfType("kernelMessage")

StartSessions == {r \in ReqIds : reqs[r].kind = "startSession"}
LoadPackagesReqs == {r \in ReqIds : reqs[r].kind = "loadPackages"}
BridgeReqs == {r \in ReqIds : reqs[r].kind = "bridge"}

(* C1: as long as no consumerReady notification has been received, no      *)
(* kernelMessage has been sent, however many messages the sessions have    *)
(* pushed: all of them are held in the buffer.                             *)
C1_NoKernelMessageBeforeConsumerReady ==
    consumerReadyReceived = 0 =>
        /\ KernelSent = <<>>
        /\ messageBuffer.buffer = pushed

C1_Witness ==
    /\ consumerReadyReceived = 0
    /\ Len(pushed) >= 2
    /\ KernelSent = <<>>

(* C2: the kernelMessage payloads sent so far are, in order, the first     *)
(* messages pushed: none skipped, none twice, none out of order; what was  *)
(* pushed and not yet sent is what the buffer holds.                       *)
C2_KernelSentIsPrefixOfPushed ==
    /\ Len(KernelSent) <= Len(pushed)
    /\ \A i \in 1..Len(KernelSent) : KernelSent[i].message = pushed[i]
    /\ Len(KernelSent) + Len(messageBuffer.buffer) = Len(pushed)

(* Messages were pushed before the buffer was started and after it. *)
C2_Witness ==
    /\ messageBuffer.started
    /\ flushed >= 1
    /\ Len(KernelSent) > flushed
    /\ Len(KernelSent) = Len(pushed)

(* C3: a startSession request is never rejected.  Once it has resolved it  *)
(* has sent exactly one message: initializedError when the invariant,      *)
(* the mount or the session start failed, initialized otherwise; before    *)
(* that it has sent none.  The messages in the log are those of the        *)
(* requests and the one of a failed bootstrap, so a request that resolves  *)
(* after a failed bootstrap finds an initializedError sent.                *)
C3_StartSessionNeverFails ==
    /\ \A r \in StartSessions :
          /\ reqs[r].pc # "rejected"
          /\ reqs[r].pc = "resolved" =>
                /\ reqs[r].sentInitialized + reqs[r].sentError = 1
                /\ reqs[r].failedAt # "none" <=> reqs[r].sentError = 1
          /\ reqs[r].pc # "resolved" =>
                reqs[r].sentInitialized + reqs[r].sentError = 0
    /\ Len(OfType("initialized"))
          = Cardinality({r \in StartSessions :
                            reqs[r].pc = "resolved" /\ reqs[r].failedAt = "none"})
    /\ Len(OfType("initializedError"))
          = Cardinality({r \in StartSessions :
                            reqs[r].pc = "resolved" /\ reqs[r].failedAt # "none"})
            + (IF bootstrapFailed THEN 1 ELSE 0)

C3_Witness ==
    \E r1, r2, r3 \in StartSessions :
        /\ reqs[r1].pc = "resolved" /\ reqs[r1].failedAt = "mount"
        /\ reqs[r2].pc = "resolved" /\ reqs[r2].failedAt = "start"
        /\ reqs[r3].pc = "resolved" /\ reqs[r3].failedAt = "none"

FailedStartSessions ==
    {r \in StartSessions : reqs[r].pc = "resolved" /\ reqs[r].failedAt # "none"}

(* C4, as claimed: a startSession or loadPackages request issued after the *)
(* bootstrap has failed is suspended at the bootstrap wait, whatever       *)
(* happens later.                                                          *)
C4_Claimed_SuspendedForever ==
    \A r \in StartSessions \cup LoadPackagesReqs :
        reqs[r].afterFailure => reqs[r].pc = "awaitBoot"

(* C4, amended: once the bootstrap has failed, pyodideReadyPromise is      *)
(* fulfilled, so the bootstrap wait holds no request back: a startSession  *)
(* or loadPackages request that is at the wait can take its next step.  A  *)
(* startSession request issued after the failure goes on to the mount and  *)
(* is never rejected; a loadPackages request issued after the failure      *)
(* hands no text to the installation and can only end rejected, at the     *)
(* call on the unset self.pyodide.                                         *)
C4_BootstrapFailureDoesNotSuspend ==
    bootstrapFailed =>
        /\ pyodideReadyPromise = "fulfilled"
        /\ pyodide = "unset"
        /\ \A r \in StartSessions :
              /\ reqs[r].pc = "awaitBoot" => ENABLED StartSessionMount(r)
              /\ reqs[r].afterFailure => reqs[r].pc # "rejected"
        /\ \A r \in LoadPackagesReqs :
              /\ reqs[r].pc = "awaitBoot" => ENABLED LoadPackagesInstall(r)
              /\ reqs[r].afterFailure =>
                    /\ reqs[r].pc \in {"awaitBoot", "rejected"}
                    /\ reqs[r].text = <<>>
                    /\ reqs[r].pc = "rejected" => reqs[r].failedAt = "pyodide"

C4_Witness ==
    /\ bootstrapFailed
    /\ \E r \in StartSessions :
          reqs[r].afterFailure /\ reqs[r].pc = "resolved"
    /\ \E r \in LoadPackagesReqs :
          reqs[r].afterFailure /\ reqs[r].pc = "rejected"

(* C5, as claimed: in a run where the bootstrap has failed, exactly one    *)
(* initializedError has been sent, whatever requests came later.           *)
C5_Claimed_ErrorSentExactlyOnce ==
    bootstrapFailed => Len(OfType("initializedError")) = 1

(* C5, amended: in a run where the bootstrap has failed, the failure of    *)
(* the bootstrap is reported by one initializedError, and each             *)
(* startSession request that failed in its mount or its session start has  *)
(* sent one more; loadPackages, bridge and consumerReady send none.        *)
C5_OneErrorPerFailure ==
    bootstrapFailed =>
        Len(OfType("initializedError")) = 1 + Cardinality(FailedStartSessions)

C5_Witness ==
    /\ bootstrapFailed
    /\ Len(OfType("initializedError")) = 2
    /\ \E r \in LoadPackagesReqs : reqs[r].pc = "rejected"
    /\ \E r \in BridgeReqs : reqs[r].pc = "awaitBridge"
    /\ consumerReadyReceived > 0 /\ consumerWaiting = 0

Invoked(r) == reqs[r].kind = "bridge" /\ reqs[r].pc \in {"calling", "resolved", "rejected"}

(* C6: the bridge handle is resolved with the bridge of the first          *)
(* startSession that succeeded and keeps that value through every later    *)
(* success; every bridge request that has invoked its function has         *)
(* invoked it on that bridge.                                              *)
C6_BridgeHandleSingleAssignment ==
    /\ bridgeReady.status = "pending" <=> resolvedWith = <<>>
    /\ bridgeReady.status = "resolved" => bridgeReady.value = resolvedWith[1]
    /\ \A r \in ReqIds : Invoked(r) => reqs[r].bridge = resolvedWith[1]

(* Two startSession requests have succeeded, and a bridge request issued   *)
(* after both has invoked its function.                                    *)
C6_Witness ==
    /\ Len(resolvedWith) = 2
    /\ resolvedWith[1] # resolvedWith[2]
    /\ reqs[3].kind = "bridge" /\ reqs[3].pc = "calling"

(* C7: a bridge request has invoked its function only if the bootstrap     *)
(* wait is over and a startSession request has succeeded; as long as no    *)
(* startSession request has succeeded, every bridge request is suspended,  *)
(* neither resolved nor rejected.                                          *)
C7_BridgeWaitsForSession ==
    /\ \A r \in ReqIds :
          Invoked(r) =>
              /\ pyodideReadyPromise = "fulfilled"
              /\ \E q \in StartSessions :
                    reqs[q].pc = "resolved" /\ reqs[q].failedAt = "none"
    /\ resolvedWith = <<>> =>
          \A r \in BridgeReqs : reqs[r].pc \in {"awaitBoot", "awaitBridge"}

(* A bridge request is past the bootstrap wait and suspended at the        *)
(* handle while the only startSession request has failed.                  *)
C7_Witness ==
    /\ \E r \in BridgeReqs : reqs[r].pc = "awaitBridge"
    /\ FailedStartSessions # {}
    /\ resolvedWith = <<>>

(* The module body always runs: it is the top-level code of the worker. *)
SpecFair == Spec /\ WF_vars(WorkerStartup)

ReadySent == \E i \in DOMAIN sent : sent[i].type = "ready"

ReadyFirst ==
    IF workerLoaded
    THEN /\ Len(sent) >= 1
         /\ sent[1].type = "ready"
         /\ Len(OfType("ready")) = 1
    ELSE sent = <<>>

(* C8: in every run "ready" is sent, whether the bootstrap succeeds, fails *)
(* or never completes; it is sent by the module body, exactly once and as  *)
(* the first message of all, so before any initialized, initializedError   *)
(* or kernelMessage.                                                       *)
C8_ReadySentFirstInEveryRun == []ReadyFirst /\ <>ReadySent

C8_Witness ==
    /\ Len(sent) >= 4
    /\ sent[1].type = "ready"
    /\ ~bootstrapFailed
    /\ Len(OfType("initialized")) >= 1
    /\ Len(OfType("initializedError")) >= 1
    /\ Len(OfType("kernelMessage")) >= 1

(***************************************************************************)
(* The JSON values whose text has at most MaxResponseLen characters: the   *)
(* numbers 1, 11, ... and the arrays of such values.  A text parses as     *)
(* structured data when it is the text of one of them.                     *)
(***************************************************************************)
RECURSIVE Ones(_)
Ones(k) == IF k = 0 THEN 0 ELSE 10 * Ones(k - 1) + 1

Fits(val) == Len(StringifyChars(val)) <= MaxResponseLen

RECURSIVE JsonValuesOfDepth(_)
JsonValuesOfDepth(d) ==
    IF d = 0
    THEN {Num(Ones(k)) : k \in 1..MaxResponseLen} \cup {Arr(<<>>)}
    ELSE LET inner == JsonValuesOfDepth(d - 1)
             elems == SeqsUpTo(inner, (MaxResponseLen - 1) \div 2) IN
         inner \cup {a \in {Arr(es) : es \in elems} : Fits(a)}

JsonValues == JsonValuesOfDepth(MaxResponseLen \div 2)

ValuesOfText(chars) == {val \in JsonValues : StringifyChars(val) = chars}

(* The bridge function of request r has returned a response. *)
Responded(r) ==
    /\ reqs[r].kind = "bridge"
    /\ reqs[r].pc \in {"resolved", "rejected"}
    /\ reqs[r].failedAt # "call"

(* C9, as claimed: a string response that is the text of a JSON value is   *)
(* returned as that value, a string response that is not is returned as    *)
(* the string itself and the request resolves, and a response that is no   *)
(* string is returned unchanged.                                           *)
C9_Claimed_UnparsableReturnedVerbatim ==
    \A r \in ReqIds :
        Responded(r) =>
            /\ reqs[r].pc = "resolved"
            /\ IF reqs[r].response.t # "string"
               THEN reqs[r].result = reqs[r].response
               ELSE IF ValuesOfText(reqs[r].response.s) # {}
               THEN reqs[r].result \in ValuesOfText(reqs[r].response.s)
               ELSE reqs[r].result = reqs[r].response

(* C9, amended: a string response that is the text of a JSON value is      *)
(* returned as that value and a response that is no string is returned     *)
(* unchanged; a string response that is not the text of a JSON value       *)
(* makes JSON.parse throw, and the request is rejected with that error.    *)
C9_UnparsableRejects ==
    \A r \in ReqIds :
        Responded(r) =>
            IF reqs[r].response.t # "string"
            THEN reqs[r].pc = "resolved" /\ reqs[r].result = reqs[r].response
            ELSE IF ValuesOfText(reqs[r].response.s) # {}
            THEN /\ reqs[r].pc = "resolved"
                 /\ reqs[r].result \in ValuesOfText(reqs[r].response.s)
            ELSE reqs[r].pc = "rejected" /\ reqs[r].failedAt = "parse"

C9_Witness ==
    \E r \in ReqIds :
        /\ Responded(r)
        /\ reqs[r].response = Str(<<"[", "1", ",">>)
        /\ reqs[r].pc = "rejected"

(* The request has handed its text to loadPackagesFromImports. *)
Handed(r) ==
    /\ reqs[r].kind = "loadPackages"
    /\ \/ reqs[r].pc \in {"installing", "resolved"}
       \/ reqs[r].pc = "rejected" /\ reqs[r].failedAt = "install"

Mentions(code, piece) == piece \in {code[i] : i \in DOMAIN code}

SqlOnly(r) ==
    /\ Handed(r)
    /\ Mentions(reqs[r].code, "mo.sql")
    /\ ~Mentions(reqs[r].code, "polars")

(* C10, as claimed: for a code with mo.sql and without polars the text     *)
(* handed to the installation is the code behind three import lines that   *)
(* stand in the order pandas, duckdb, sqlglot.                             *)
C10_Claimed_PandasDuckdbSqlglot ==
    \A r \in ReqIds :
        SqlOnly(r) =>
            reqs[r].text
                = <<"import pandas\n", "import duckdb\n", "import sqlglot\n">>
                    \o reqs[r].code

(* C10, amended: for a code with mo.sql and without polars the text handed *)
(* to the installation is the code behind exactly three import lines,      *)
(* which stand in the order sqlglot, duckdb, pandas: each line is put in   *)
(* front of the text built so far, pandas first and sqlglot last.          *)
C10_SqlglotDuckdbPandas ==
    \A r \in ReqIds :
        SqlOnly(r) =>
            reqs[r].text
                = <<"import sqlglot\n", "import duckdb\n", "import pandas\n">>
                    \o reqs[r].code

C10_Witness ==
    \E r \in ReqIds :
        /\ SqlOnly(r)
        /\ reqs[r].code = <<"x = 1\n", "mo.sql", "x = 1\n">>
        /\ Len(reqs[r].text) = 6

ImportLines ==
    {"import pandas\n", "import duckdb\n", "import sqlglot\n", "import pyarrow\n"}

(* How many lines stand in front of the code in the text handed over. *)
PrependedCount(r) == Len(reqs[r].text) - Len(reqs[r].code)

PrependedLines(r) == SubSeq(reqs[r].text, 1, PrependedCount(r))

(* The handed text ends with the code of the request, unaltered. *)
EndsWithCode(r) ==
    /\ PrependedCount(r) >= 0
    /\ SubSeq(reqs[r].text, PrependedCount(r) + 1, Len(reqs[r].text))
           = reqs[r].code

(* C11: for a code with both mo.sql and polars the text handed to the      *)
(* installation is the code behind exactly four import lines, four         *)
(* different ones, of which import pyarrow is the first; for a code        *)
(* without mo.sql the text handed over is the code itself, also when the   *)
(* code mentions polars.                                                   *)
C11_FourImportsPyarrowFirst ==
    \A r \in ReqIds :
        Handed(r) =>
            /\ EndsWithCode(r)
            /\ (Mentions(reqs[r].code, "mo.sql")
                  /\ Mentions(reqs[r].code, "polars")) =>
                   /\ PrependedCount(r) = 4
                   /\ {PrependedLines(r)[i] : i \in 1..4} = ImportLines
                   /\ reqs[r].text[1] = "import pyarrow\n"
            /\ ~Mentions(reqs[r].code, "mo.sql") => reqs[r].text = reqs[r].code

C11_Witness ==
    /\ \E r \in ReqIds :
          /\ Handed(r)
          /\ reqs[r].code = <<"polars", "x = 1\n", "mo.sql">>
          /\ Len(reqs[r].text) = 7

(* The request's bridge function has rejected, or its installation has     *)
(* failed.                                                                 *)
FailedInside(r) ==
    \/ reqs[r].kind = "bridge" /\ reqs[r].failedAt = "call"
    \/ reqs[r].kind = "loadPackages" /\ reqs[r].failedAt = "install"

(* The step in which the bridge function of r rejects or the installation  *)
(* of r fails.                                                             *)
FailureStep(r) ==
    /\ reqs[r].pc \in {"calling", "installing"}
    /\ reqs'[r].failedAt \in {"call", "install"}

(* C12: a bridge request whose function rejects and a loadPackages request *)
(* whose installation fails end rejected and have sent no message, and     *)
(* the step of the failure sends nothing (so no initializedError), leaves  *)
(* the bridge handle and the message buffer as they are, and changes no    *)
(* other request.                                                          *)
C12_FailureRejectsOnlyTheRequest ==
    /\ [](\A r \in ReqIds :
            FailedInside(r) =>
                /\ reqs[r].pc = "rejected"
                /\ reqs[r].sentError = 0
                /\ reqs[r].sentInitialized = 0)
    /\ [][\A r \in ReqIds :
            FailureStep(r) =>
                /\ reqs'[r].pc = "rejected"
                /\ sent' = sent
                /\ bridgeReady' = bridgeReady
                /\ messageBuffer' = messageBuffer
                /\ \A q \in ReqIds \ {r} : reqs'[q] = reqs[q]]_vars

C12_Witness ==
    /\ \E r \in ReqIds : reqs[r].kind = "bridge" /\ FailedInside(r)
    /\ \E r \in ReqIds : reqs[r].kind = "loadPackages" /\ FailedInside(r)
    /\ bridgeReady.status = "resolved"
    /\ messageBuffer.buffer # <<>>
    /\ OfType("initializedError") = <<>>

(***************************************************************************)
(* The continuation of an await runs once the awaited promise is settled:  *)
(* the event loop of the worker runs every queued job.  So a bridge        *)
(* request at one of its awaits (lines 115, 120) takes its next step once  *)
(* the promise it waits for is fulfilled.                                  *)
(***************************************************************************)
SpecBridgeFair ==
    /\ Spec
    /\ \A r \in ReqIds : WF_vars(BridgeAwaitHandle(r))
    /\ \A r \in ReqIds : WF_vars(BridgeCall(r))

(* A startSession request has succeeded. *)
SessionStarted ==
    \E q \in StartSessions : reqs[q].pc = "resolved" /\ reqs[q].failedAt = "none"

(* C21: once a startSession request has succeeded, every bridge request,   *)
(* whether issued before that or after it and however many of them wait at *)
(* the handle together, goes on to call its named function, so none stays  *)
(* suspended; and a request has called its function once when it is past   *)
(* the handle and not at all before, never twice.                          *)
C21_EveryBridgeRequestInvokesOnce ==
    /\ [](\A r \in ReqIds :
            reqs[r].calls = (IF Invoked(r) THEN 1 ELSE 0))
    /\ \A r \in ReqIds :
          (reqs[r].kind = "bridge" /\ SessionStarted) ~> Invoked(r)

(* Two bridge requests, issued before the startSession request, waited at  *)
(* the handle together and have both called their function.                *)
C21_Witness ==
    /\ reqs[1].kind = "bridge" /\ reqs[1].calls = 1
    /\ reqs[2].kind = "bridge" /\ reqs[2].calls = 1
    /\ reqs[3].kind = "startSession" /\ reqs[3].pc = "resolved"
    /\ SessionStarted

SucceededStartSessions ==
    {q \in StartSessions : reqs[q].pc = "resolved" /\ reqs[q].failedAt = "none"}

(* C22: one initialized message has been sent for each startSession        *)
(* request that has succeeded; and once an initialized message has been    *)
(* sent the bridge handle is resolved and the bootstrap wait is over, so   *)
(* no bridge request is held at either of its awaits: each one that is at  *)
(* an await can take its next step.                                        *)
C22_InitializedFollowsHandle ==
    /\ Len(OfType("initialized")) = Cardinality(SucceededStartSessions)
    /\ OfType("initialized") # <<>> =>
          /\ bridgeReady.status = "resolved"
          /\ pyodideReadyPromise = "fulfilled"
          /\ \A r \in BridgeReqs :
                /\ reqs[r].pc = "awaitBoot" => ENABLED BridgeAwaitHandle(r)
                /\ reqs[r].pc = "awaitBridge" => ENABLED BridgeCall(r)

(* Two startSession requests have succeeded, two initialized messages have *)
(* been sent, and a bridge request issued after them is at the handle.     *)
C22_Witness ==
    /\ Len(OfType("initialized")) = 2
    /\ Cardinality(SucceededStartSessions) = 2
    /\ reqs[3].kind = "bridge"
    /\ reqs[3].pc = "awaitBridge"

(***************************************************************************)
(* The hover actions of the placed cells, run from every document of a     *)
(* bounded shape: the editor is rendered with the document, and the first  *)
(* MaxToggles handler runs are kept in history.                            *)
(***************************************************************************)
MaxToggles == 2

SideMaps == UNION {[S -> Sides] : S \in SUBSET CellIds}

PlacedLists ==
    {<<Entry(1, 0, 0, WholeColumns(1), 1), Entry(2, 1, 1, WholeColumns(1), 1)>>,
     <<Entry(2, 1, 1, WholeColumns(2), 2)>>}

Documents ==
    {[EmptyLayout EXCEPT !.cells = cellLayouts,
                         !.scrollableCells = scrollableCells,
                         !.cellSide = cellSide] :
        cellLayouts \in PlacedLists,
        scrollableCells \in SUBSET CellIds,
        cellSide \in SideMaps}

InitToggles ==
    /\ InitWorker
    /\ layout \in Documents
    /\ mode = "edit"
    /\ droppingItem = NoItem
    /\ isLocked = FALSE
    /\ mounted = TRUE
    /\ appClassList = Effect(layout, {})
    /\ dragging = FALSE
    /\ lastOp = NoOp
    /\ history = NoHistory(MaxToggles)

Recording == Len(history.ops) < history.keep

NextToggles ==
    \/ \E id \in CellIds : Recording /\ ToggleScrollable(id)
    \/ \E id \in CellIds, side \in Sides : Recording /\ SelectSide(id, side)
    \/ \E id \in CellIds : Recording /\ ClickDelete(id)

SpecToggles == InitToggles /\ [][NextToggles]_vars

(***************************************************************************)
(* The drop of a tray cell, for every column count up to MaxColumns, every *)
(* row height up to MaxRowHeight and every pixel height up to              *)
(* MaxPixelHeight of the dragged element.                                  *)
(***************************************************************************)
MaxColumns == 6
MaxRowHeight == 3
MaxPixelHeight == 5

InitDrop ==
    /\ InitWorker
    /\ \E columns \in 1..MaxColumns, rowHeight \in 1..MaxRowHeight :
          layout = [EmptyLayout EXCEPT !.columns = columns,
                                       !.rowHeight = rowHeight]
    /\ mode = "edit"
    /\ droppingItem = NoItem
    /\ isLocked = FALSE
    /\ mounted = TRUE
    /\ appClassList = Effect(layout, {})
    /\ dragging = FALSE
    /\ lastOp = NoOp
    /\ history = NoHistory(2)

NextDrop ==
    \/ \E cellId \in CellIds, height \in 0..MaxPixelHeight :
          Recording /\ TrayDragStart(cellId, height)
    \/ \E target \in DropTargets :
          \E report \in DropReports(layout, DroppingItemProp(droppingItem),
                                    target[1], target[2]) :
              Recording /\ TrayDrop(report[1], report[2])
    \/ Recording /\ TrayDragEnd

SpecDrop == InitDrop /\ [][NextDrop]_vars

(***************************************************************************)
(* A cell is deleted and dropped back, from every document of Documents,   *)
(* with hover actions in between; the first MaxRestore handler runs are    *)
(* kept in history.                                                        *)
(***************************************************************************)
MaxRestore == 4

InitRestore ==
    /\ InitWorker
    /\ layout \in Documents
    /\ mode = "edit"
    /\ droppingItem = NoItem
    /\ isLocked = FALSE
    /\ mounted = TRUE
    /\ appClassList = Effect(layout, {})
    /\ dragging = FALSE
    /\ lastOp = NoOp
    /\ history = NoHistory(MaxRestore)

NextRestore ==
    \/ \E id \in CellIds : Recording /\ ClickDelete(id)
    \/ \E id \in CellIds : Recording /\ ToggleScrollable(id)
    \/ \E id \in CellIds, side \in Sides : Recording /\ SelectSide(id, side)
    \/ \E cellId \in CellIds, height \in PixelHeights :
          Recording /\ TrayDragStart(cellId, height)
    \/ \E target \in DropTargets :
          \E report \in DropReports(layout, DroppingItemProp(droppingItem),
                                    target[1], target[2]) :
              Recording /\ TrayDrop(report[1], report[2])
    \/ Recording /\ TrayDragEnd

SpecRestore == InitRestore /\ [][NextRestore]_vars

(***************************************************************************)
(* Properties of the editor.                                               *)
(***************************************************************************)

EntriesOf(l, id) == {k \in DOMAIN l.cells : l.cells[k].i = id}

(* C13: in every layout document the editor reaches, no two entries of     *)
(* the cell list have the same id.                                         *)
C13_Claimed_UniqueIds ==
    \A id \in CellIds : Cardinality(EntriesOf(layout, id)) <= 1

EntryValues(l, id) == {l.cells[k] : k \in EntriesOf(l, id)}

(* What a step that moved or resized cell id to the entry e has done.      *)
CellMoved(id, e) ==
    /\ Cardinality(EntriesOf(layout', id)) = 1
    /\ EntryValues(layout', id) = {e}
    /\ \A other \in CellIds \ {id} :
          EntryValues(layout', other) = EntryValues(layout, other)
    /\ layout'.columns = layout.columns
    /\ layout'.rowHeight = layout.rowHeight
    /\ layout'.maxWidth = layout.maxWidth
    /\ layout'.bordered = layout.bordered
    /\ layout'.scrollableCells = layout.scrollableCells
    /\ layout'.cellSide = layout.cellSide

(* C14: when the library reports that cell id was dragged to (x, y) or     *)
(* resized to w by h, the new document has exactly one entry for id, with  *)
(* the coordinates of the report, the entries of every other cell are what *)
(* they were, and columns, rowHeight, maxWidth, bordered, scrollableCells  *)
(* and cellSide are unchanged.                                             *)
C14_MoveChangesOneEntry ==
    [][\A id \in CellIds :
          /\ \A target \in DragTargets :
                (EnableInteractions /\ GridDrag(id, target[1], target[2])) =>
                    LET old == FirstEntry(layout.cells, id) IN
                    CellMoved(id, Entry(id, target[1], target[2], old.w, old.h))
          /\ \A target \in ResizeTargets :
                (EnableInteractions /\ GridResize(id, target[1], target[2])) =>
                    LET old == FirstEntry(layout.cells, id) IN
                    CellMoved(id, Entry(id, old.x, old.y, target[1], target[2]))]_vars

C14_Witness ==
    /\ lastOp.op = "drag"
    /\ EnableInteractions
    /\ InGridIds(layout) = CellIds
    /\ EntryValues(layout, lastOp.id) = {Entry(lastOp.id, 1, 1, WholeColumns(1), 3)}
    /\ \E other \in CellIds \ {lastOp.id} :
          EntryValues(layout, other) = {Entry(other, 1, 1, WholeColumns(1), 1)}
    /\ layout.bordered

(* The places of the cell list that hold another cell than id, and the     *)
(* n-th of them.                                                           *)
KeptPlaces(l, id) == {k \in DOMAIN l.cells : l.cells[k].i # id}

NthKept(l, id, n) ==
    CHOOSE k \in KeptPlaces(l, id) :
        Cardinality({j \in KeptPlaces(l, id) : j < k}) = n - 1

After(k) ==
    IF k < Len(history.ops) THEN history.ops[k + 1].before ELSE layout

(* The k-th and the next handler run set the side of cell id to side. *)
SideSetTwice(k, id, side) ==
    /\ k + 1 <= Len(history.ops)
    /\ \A j \in {k, k + 1} :
          /\ history.ops[j].op = "side"
          /\ history.ops[j].id = id
          /\ history.ops[j].arg = side

(* C16, as claimed: after the side of cell id was set to the same side     *)
(* twice in a row, the side mapping has no entry for id, whatever it had   *)
(* before.                                                                 *)
C16_Claimed_TwiceClears ==
    \A k \in 1..MaxOps, id \in CellIds, side \in Sides :
        SideSetTwice(k, id, side) =>
            MapGet(After(k + 1).cellSide, id) = "undefined"

(* C16, amended: after the side of cell id was set to the same side twice  *)
(* in a row, the side mapping has no entry for id when its entry before    *)
(* the two was absent or the other side, and has the entry side again when *)
(* its entry before the two was side.                                      *)
C16_TwiceClearsUnlessSet ==
    \A k \in 1..MaxOps, id \in CellIds, side \in Sides :
        SideSetTwice(k, id, side) =>
            MapGet(After(k + 1).cellSide, id)
                = IF MapGet(history.ops[k].before.cellSide, id) = side
                  THEN side
                  ELSE "undefined"

C16_Witness ==
    /\ SideSetTwice(1, 2, "left")
    /\ MapGet(history.ops[1].before.cellSide, 2) = "left"
    /\ MapGet(history.ops[2].before.cellSide, 2) = "undefined"
    /\ MapGet(layout.cellSide, 2) = "left"

(* The k-th and the next handler run toggle the scrollability of cell id. *)
ScrollToggledTwice(k, id) ==
    /\ k + 1 <= Len(history.ops)
    /\ \A j \in {k, k + 1} :
          history.ops[j].op = "scroll" /\ history.ops[j].id = id

(* C17: after the scrollability of cell id was toggled twice in a row, id  *)
(* is in scrollableCells exactly when it was before, and so is every other *)
(* id, and every other field of the document is what it was.               *)
C17_ScrollToggleTwiceRestores ==
    \A k \in 1..MaxOps, id \in CellIds :
        ScrollToggledTwice(k, id) =>
            /\ (id \in After(k + 1).scrollableCells)
                   <=> (id \in history.ops[k].before.scrollableCells)
            /\ (id \in After(k).scrollableCells)
                   <=> ~(id \in history.ops[k].before.scrollableCells)
            /\ After(k + 1) = history.ops[k].before

C17_Witness ==
    /\ ScrollToggledTwice(1, 2)
    /\ history.ops[1].before.scrollableCells = {1}
    /\ history.ops[2].before.scrollableCells = {1, 2}
    /\ layout.scrollableCells = {1}
    /\ DOMAIN layout.cellSide = {1}

(* The first handler run was the start of the drag of a tray element that  *)
(* is height pixels high, the second the drop of it with a dropped item.   *)
Dropped(height) ==
    /\ Len(history.ops) = 2
    /\ history.ops[1].op = "dragstart"
    /\ history.ops[1].arg = height
    /\ history.ops[2].op = "drop"
    /\ history.ops[2].arg # NoEntry

(* C18: the entry a drop appends to the cell list is the last of the list, *)
(* is for the dragged cell, is a quarter of the column count wide, and its *)
(* height is the least whole number of rows, 1 or more, that covers the    *)
(* pixel height of the dragged element.                                    *)
C18_DroppedEntrySize ==
    \A height \in 0..MaxPixelHeight :
        Dropped(height) =>
            LET before == history.ops[2].before
                e == layout.cells[Len(layout.cells)] IN
            /\ Len(layout.cells) >= 1
            /\ e.i = history.ops[1].id
            /\ 4 * e.w = WholeColumns(before.columns)
            /\ e.h >= 1
            /\ e.h * before.rowHeight >= height
            /\ e.h = 1 \/ (e.h - 1) * before.rowHeight < height

C18_Witness ==
    /\ Dropped(5)
    /\ layout.columns = 6
    /\ layout.rowHeight = 2
    /\ layout.cells[Len(layout.cells)] = Entry(1, 0, 0, 6, 3)

(* The step is a run of the handler op. *)
HandlerRan(ops) == lastOp'.n # lastOp.n /\ lastOp'.op \in ops

(* C19: a click on the lock switch leaves the whole layout document as it  *)
(* was, and a drag, a resize or a drop of a tray cell made while the       *)
(* editor is locked leaves the cell list of the document as it was.        *)
C19_LockKeepsDocument ==
    [][/\ HandlerRan({"lock"}) => layout' = layout
       /\ isLocked /\ HandlerRan({"drag", "resize", "drop"})
              => layout'.cells = layout.cells]_vars

C19_Witness ==
    /\ mounted
    /\ isLocked
    /\ lastOp.op = "drop"
    /\ lastOp.id \notin InGridIds(layout)

(* C20: while the editor is mounted the class grid-bordered is on the App  *)
(* element exactly when layout.bordered is true, and after the editor is   *)
(* torn down the class is not on it.                                       *)
C20_BorderedClassFollowsFlag ==
    /\ mounted => (("grid-bordered" \in appClassList) <=> layout.bordered)
    /\ ~mounted => "grid-bordered" \notin appClassList

C20_Witness ==
    /\ ~mounted
    /\ lastOp.op = "unmount"
    /\ lastOp.n = 1
    /\ mode = "edit"
    /\ layout.bordered
    /\ layout.cells = <<>>
    /\ appClassList = {}

(* The j-th handler run deleted cell id. *)
Deleted(j, id) ==
    /\ j <= Len(history.ops)
    /\ history.ops[j].op = "delete"
    /\ history.ops[j].id = id

(* The k-th handler run dropped cell id, deleted by the j-th and not       *)
(* deleted again since, back into the grid.                                *)
DroppedBack(j, k, id) ==
    /\ Deleted(j, id)
    /\ j < k
    /\ k <= Len(history.ops)
    /\ history.ops[k].op = "drop"
    /\ history.ops[k].id = id
    /\ history.ops[k].arg # NoEntry
    /\ \A m \in (j + 1)..(k - 1) : ~Deleted(m, id)

(* C23: the delete of cell id changes the cell list and no other field of  *)
(* the document: scrollableCells and cellSide are what they were and so    *)
(* keep what they held for id, which is then not placed; and when id is    *)
(* later dropped back into the grid it is placed again, scrollable exactly *)
(* when it was before the delete and with the side it had before the       *)
(* delete.                                                                 *)
C23_DeleteKeepsScrollAndSide ==
    \A id \in CellIds, j \in 1..MaxRestore :
        Deleted(j, id) =>
            LET before == history.ops[j].before IN
            /\ After(j) = [before EXCEPT !.cells = After(j).cells]
            /\ EntriesOf(After(j), id) = {}
            /\ \A k \in 1..MaxRestore :
                  DroppedBack(j, k, id) =>
                      /\ EntriesOf(After(k), id) # {}
                      /\ (id \in After(k).scrollableCells)
                             <=> (id \in before.scrollableCells)
                      /\ MapGet(After(k).cellSide, id)
                             = MapGet(before.cellSide, id)

(* Cell 2, scrollable and docked left, was deleted, another cell was made  *)
(* scrollable, and cell 2 was dropped back.                                *)
C23_Witness ==
    /\ DroppedBack(1, 4, 2)
    /\ history.ops[2].op = "scroll"
    /\ 2 \in history.ops[1].before.scrollableCells
    /\ MapGet(history.ops[1].before.cellSide, 2) = "left"
    /\ 2 \in After(1).scrollableCells
    /\ 2 \notin InGridIds(After(1))
    /\ 2 \in InGridIds(layout)
    /\ layout.scrollableCells = {1, 2}
    /\ MapGet(layout.cellSide, 2) = "left"

====
